---- MODULE Spec2Model ----
(***************************************************************************)
(* A model of scripts/libs/playerUseChestBeforeEvent.js:                   *)
(*   - the callback registry and the "player interacts with block"         *)
(*     handler that broadcasts a PlayerUseChestBeforeEvent,                *)
(*   - getLargeChest / checkObject (pairing of the halves of a large      *)
(*     chest),                                                             *)
(*   - CommandHandler: constructor (pre-loading of the leaf commands),     *)
(*     check, command, match, getAllSubCommands.                           *)
(* Strings are sequences of one-character strings, so that startsWith,     *)
(* replace, trim and split are computed and not assumed.                   *)
(***************************************************************************)
EXTENDS Integers, Sequences, FiniteSets, TLC

\* ------------------------------------------------------------------ bounds

\* Longest chat message, and longest synthesized script-event message.
MaxLen == 4

\* Longest token sequence handed to match directly.
MaxTokens == 3

\* The dispatches of earlier events that may be left suspended on import().
MaxPending == 2

\* ------------------------------------------------------- program constants

\* The capacity of the container of either half of a large chest.
LargeChestSize == 54

\* ----------------------------------------------------------------- strings

Alphabet == {"!", "i", "a", "b", " "}

RECURSIVE StrUpTo(_)
StrUpTo(n) ==
    IF n = 0 THEN {<< >>}
    ELSE LET shorter == StrUpTo(n - 1)
         IN  shorter \cup {Append(s, c) : s \in shorter, c \in Alphabet}

\* String.prototype.startsWith
startsWith(s, p) == Len(p) <= Len(s) /\ SubSeq(s, 1, Len(p)) = p

\* The 1-based places where p occurs in s (the empty string occurs at 1).
Occurrences(s, p) ==
    {i \in 1..(Len(s) - Len(p) + 1) : SubSeq(s, i, i + Len(p) - 1) = p}

MinOf(S) == CHOOSE x \in S : \A y \in S : x <= y

\* String.prototype.replace(p, ""): the first occurrence of p is removed.
replace(s, p) ==
    IF Occurrences(s, p) = {} THEN s
    ELSE LET i == MinOf(Occurrences(s, p))
         IN  SubSeq(s, 1, i - 1) \o SubSeq(s, i + Len(p), Len(s))

\* String.prototype.trim: the white space at both ends is removed.
trim(s) ==
    LET inked == {i \in 1..Len(s) : s[i] # " "}
    IN  IF inked = {} THEN << >>
        ELSE SubSeq(s, MinOf(inked), CHOOSE x \in inked : \A y \in inked : y <= x)

\* String.prototype.split(" "): one token between any two single spaces.
RECURSIVE split(_)
split(s) ==
    LET spaces == {i \in 1..Len(s) : s[i] = " "}
    IN  IF spaces = {} THEN << s >>
        ELSE LET i == MinOf(spaces)
             IN  << SubSeq(s, 1, i - 1) >> \o split(SubSeq(s, i + 1, Len(s)))

\* ------------------------------------------------------------------ actors

NoTags == {}

\* An Entity (a Player is one): its kind and the tags it holds (getTags()).
\* "none" is the absent entity (undefined sourceEntity).
Player(tags) == [kind |-> "player", tags |-> tags]
Mob(tags) == [kind |-> "entity", tags |-> tags]
Absent == [kind |-> "none", tags |-> NoTags]

TagSets == {NoTags, {"op"}, {"vip"}}

Players == {Player(t) : t \in TagSets}
Actors == Players \cup {Mob(t) : t \in TagSets} \cup {Absent}

\* ------------------------------------------------------------ command tree

\* A SubCommand: its name, its tags (when declared) and its subCommands
\* (when declared; a declared list may be empty).
Leaf(name) ==
    [name |-> name, hasTags |-> FALSE, tags |-> << >>, hasSub |-> FALSE, subCommands |-> << >>]
TaggedLeaf(name, tags) ==
    [name |-> name, hasTags |-> TRUE, tags |-> tags, hasSub |-> FALSE, subCommands |-> << >>]
Node(name, subs) ==
    [name |-> name, hasTags |-> FALSE, tags |-> << >>, hasSub |-> TRUE, subCommands |-> subs]
TaggedNode(name, tags, subs) ==
    [name |-> name, hasTags |-> TRUE, tags |-> tags, hasSub |-> TRUE, subCommands |-> subs]

A == << "a" >>
B == << "b" >>

\* a flat tree: an open command and one that needs the tag op
TreeFlat == << Leaf(A), TaggedLeaf(B, << "op" >>) >>

\* a nested tree: tags on leaves and on intermediate nodes
TreeNested ==
    << Node(A, << TaggedLeaf(A, << "op" >>), TaggedLeaf(B, << >>) >>),
       TaggedNode(B, << "op", "vip" >>, << Leaf(A), TaggedLeaf(B, << "vip" >>) >>) >>

\* an empty list of subCommands, and two siblings of one name
TreeOdd ==
    << Node(A, << >>), TaggedLeaf(B, << "op" >>), Leaf(B) >>

Trees == {TreeFlat, TreeNested, TreeOdd}

\* CommandSetting: prefix and id.
Settings ==
    { [prefix |-> << "!" >>, id |-> << "i" >>],
      [prefix |-> << "!" >>, id |-> << >>],
      [prefix |-> << >>, id |-> << "i" >>] }

\* ----------------------------------------------------- names (string?)

\* A name as match and command return it: a string, null or undefined.
StrName(s) == [kind |-> "str", s |-> s]
NullName == [kind |-> "null", s |-> << >>]
UndefinedName == [kind |-> "undefined", s |-> << >>]

\* JavaScript truthiness of a name: a non-empty string.
Truthy(n) == n.kind = "str" /\ n.s # << >>

\* ------------------------------------------------ CommandHandler.match

\* (mutant) Array.prototype.every in the place of some: all the declared tags
\* are asked for.
EveryTagHeld(tags, entity) == \A i \in 1..Len(tags) : tags[i] \in entity.tags

\* Array.prototype.some over command.tags: some declared tag is among the
\* tags the entity holds.
SomeTagHeld(tags, entity) == \E i \in 1..Len(tags) : tags[i] \in entity.tags

\* (mutant) the tags are asked for only on a command without subCommands.
hasRequiredTagsOfLeaves(command, entity) ==
    IF entity.kind # "none" /\ ~command.hasSub
    THEN IF command.hasTags
         THEN Len(command.tags) = 0 \/ SomeTagHeld(command.tags, entity)
         ELSE TRUE
    ELSE TRUE

\* hasRequiredTags of match: granted to an absent entity, to a command
\* that declares no tags or an empty list, and to a holder of a declared tag.
hasRequiredTags(command, entity) ==
    IF entity.kind # "none"
    THEN IF command.hasTags
         THEN Len(command.tags) = 0 \/ SomeTagHeld(command.tags, entity)
         ELSE TRUE
    ELSE TRUE

MatchReturn(result, name, remainingMessage) ==
    [result |-> result, name |-> name, remainingMessage |-> remainingMessage]

\* The first command of the list named currentCommand (the for loop returns
\* at the first one), 0 when there is none.
FirstNamed(commands, currentCommand) ==
    LET named == {i \in 1..Len(commands) : commands[i].name = currentCommand}
    IN  IF named = {} THEN 0 ELSE MinOf(named)

RECURSIVE match(_, _, _)
match(commands, splitMessage, entity) ==
    IF Len(splitMessage) = 0
    THEN MatchReturn(TRUE, UndefinedName, << >>)
    ELSE LET currentCommand == splitMessage[1]
             remainingMessage == Tail(splitMessage)
             k == FirstNamed(commands, currentCommand)
         IN  IF k = 0
             THEN MatchReturn(FALSE, NullName, splitMessage)
             ELSE IF hasRequiredTags(commands[k], entity)
                  THEN IF commands[k].hasSub
                       THEN match(commands[k].subCommands, remainingMessage, entity)
                       ELSE MatchReturn(TRUE, StrName(currentCommand), remainingMessage)
                  ELSE MatchReturn(FALSE, StrName(currentCommand), remainingMessage)

\* ---------------------------------------------- CommandHandler.command

CommandReturn(isPrefixId, result, name, splitMessage) ==
    [isPrefixId |-> isPrefixId, result |-> result, name |-> name,
     splitMessage |-> splitMessage]

\* (mutant) only what the message starts with is removed.
StrippedOfWhatMatched(message, setting) ==
    IF startsWith(message, setting.prefix)
    THEN trim(replace(message, setting.prefix))
    ELSE trim(replace(message, setting.id))

\* The message with the prefix and then the id removed, trimmed after each.
Stripped(message, setting) ==
    trim(replace(trim(replace(message, setting.prefix)), setting.id))

command(setting, commands, message, entity) ==
    IF startsWith(message, setting.prefix) \/ startsWith(message, setting.id)
    THEN LET splitMessage == split(Stripped(message, setting))
             m == match(commands, splitMessage, entity)
         IN  IF m.result /\ Truthy(m.name)
             THEN CommandReturn(TRUE, TRUE, m.name, m.remainingMessage)
             ELSE IF ~m.result /\ Truthy(m.name)
             THEN CommandReturn(TRUE, FALSE, m.name, m.remainingMessage)
             ELSE IF setting.prefix = << >>
             THEN CommandReturn(TRUE, FALSE, NullName, << >>)
             ELSE IF setting.id = << >>
             THEN CommandReturn(TRUE, FALSE, NullName, << >>)
             ELSE CommandReturn(TRUE, TRUE, NullName, splitMessage)
    ELSE CommandReturn(FALSE, FALSE, NullName, << >>)

\* ------------------------------------ CommandHandler.getAllSubCommands

RECURSIVE getAllSubCommands(_)
getAllSubCommands(commands) ==
    IF Len(commands) = 0 THEN << >>
    ELSE LET c == Head(commands)
             bottom == IF c.hasSub /\ Len(c.subCommands) > 0
                       THEN getAllSubCommands(c.subCommands)
                       ELSE << c.name >>
         IN  bottom \o getAllSubCommands(Tail(commands))

\* --------------------------------------------------------- checkObject

\* A primitive value: its typeof and its value.
Num(v) == [t |-> "number", v |-> v]
Str(v) == [t |-> "string", v |-> v]

\* (mutant) == in the place of ===: the values are compared whatever their types.
looseEqualPrimitive(obj1, obj2) == obj1.v = obj2.v

\* isEqual of checkObject on two primitives: the same typeof, then ===.
isEqualPrimitive(obj1, obj2) ==
    IF obj1.t # obj2.t THEN FALSE ELSE obj1.v = obj2.v

\* isEqual of checkObject on two objects (the own enumerable keys of each and
\* the primitive under each key): as many keys, and every key of the first is
\* a key of the second with an equal value.
isEqual(obj1, obj2) ==
    LET keys1 == DOMAIN obj1
        keys2 == DOMAIN obj2
    IN  IF Cardinality(keys1) # Cardinality(keys2) THEN FALSE
        ELSE \A key \in keys1 : key \in keys2 /\ isEqualPrimitive(obj1[key], obj2[key])

\* checkObject(base, other): every other object equals the base.
checkObject(base, other) == isEqual(base, other)

\* -------------------------------------------------------------- blocks

\* block.permutation.getAllStates(): the direction property of a chest, as
\* a number, another number, a string, under another key, with one more key.
StatesNorth == [d |-> Num("2")]
StatesEast == [d |-> Num("3")]
StatesText == [d |-> Str("2")]
StatesOtherKey == [e |-> Num("2")]
StatesMore == [d |-> Num("2"), e |-> Num("2")]
StatesOfAir == [a |-> Num("0")]

\* The own enumerable properties of a Container object, for two containers
\* that differ in one of them.
ContainerA == [emptySlotsCount |-> Num("54")]
ContainerB == [emptySlotsCount |-> Num("53")]

\* A block: its typeId, its inventory component's container (when it has
\* one: the size and the properties) and its states.
BlockOf(typeId, size, container, states) ==
    [typeId |-> typeId, hasContainer |-> TRUE, size |-> size,
     container |-> container, states |-> states]
Air ==
    [typeId |-> "minecraft:air", hasContainer |-> FALSE, size |-> 0,
     container |-> ContainerA, states |-> StatesOfAir]

Chest54(container, states) == BlockOf("minecraft:chest", LargeChestSize, container, states)
\* A chest that is not half of a large one: 27 slots.
SingleChest == BlockOf("minecraft:chest", 27, ContainerA, StatesNorth)
TrappedChest54 ==
    BlockOf("minecraft:trapped_chest", LargeChestSize, ContainerA, StatesNorth)

BlockKinds ==
    { Air, SingleChest, TrappedChest54,
      Chest54(ContainerA, StatesNorth), Chest54(ContainerB, StatesNorth),
      Chest54(ContainerA, StatesEast), Chest54(ContainerA, StatesText),
      Chest54(ContainerA, StatesOtherKey), Chest54(ContainerA, StatesMore) }

\* The places of the world: a block and its four horizontal neighbours.
\* Every place beyond them holds air.
Centre == << 0, 0 >>
Cells == { Centre, << -1, 0 >>, << 1, 0 >>, << 0, -1 >>, << 0, 1 >> }

Worlds == [Cells -> BlockKinds]

BlockAt(w, pos) == IF pos \in Cells THEN w[pos] ELSE Air

\* block.west(), east(), north(), south(): the neighbour one step away.
Neighbour(pos, direction) ==
    CASE direction = "west" -> << pos[1] - 1, pos[2] >>
      [] direction = "east" -> << pos[1] + 1, pos[2] >>
      [] direction = "north" -> << pos[1], pos[2] - 1 >>
      [] direction = "south" -> << pos[1], pos[2] + 1 >>

directions == << "west", "east", "north", "south" >>

\* ------------------------------------------------------- getLargeChest

NoPair == [found |-> FALSE, first |-> Centre, second |-> Centre]

\* The condition of lines 104-109 on the block at pos and its neighbour.
Pairs(w, pos, adjacent) ==
    LET block == BlockAt(w, pos)
        adjacentBlock == BlockAt(w, adjacent)
    IN  /\ adjacentBlock.hasContainer
        /\ adjacentBlock.size = LargeChestSize
        /\ checkObject(block.states, adjacentBlock.states)
        /\ checkObject(block.container, adjacentBlock.container)

\* The for loop of lines 99-115 from the i-th direction on.
RECURSIVE FirstPair(_, _, _)
FirstPair(w, pos, i) ==
    IF i > Len(directions) THEN NoPair
    ELSE LET adjacent == Neighbour(pos, directions[i])
         IN  IF Pairs(w, pos, adjacent)
             THEN [found |-> TRUE, first |-> pos, second |-> adjacent]
             ELSE FirstPair(w, pos, i + 1)

\* (mutant) the test of the block's type (line 92) is left out.
getLargeChestOfAnyType(w, pos) ==
    LET container == BlockAt(w, pos)
    IN  IF ~container.hasContainer \/ container.size # LargeChestSize THEN NoPair
        ELSE FirstPair(w, pos, 1)

getLargeChest(w, pos) ==
    LET block == BlockAt(w, pos)
    IN  IF block.typeId # "minecraft:chest" THEN NoPair
        ELSE IF ~block.hasContainer \/ block.size # LargeChestSize THEN NoPair
        ELSE FirstPair(w, pos, 1)

\* ================================================================ state

VARIABLES
    \* --- CommandHandler (one router) ---
    commandSetting,  \* this.commandSetting
    commands,        \* this.commands
    ev0,             \* the event as the host hands it to check
    ev,              \* the same event when check has returned
    sent,            \* what check sent to the entity (entity.sendMessage)
    imports,         \* the names check asked import() for, in order
    dispatch,        \* the async function of check: stage, name, entity, args
    runs,            \* the calls of module.run: name, entity, args
    errors,          \* the calls of console.error made by check's catch
    escaped,         \* failures nothing caught (unhandled rejections)
    failures,        \* the failures of import() and of run that happened
    pending          \* the dispatches of earlier events that never settle

routerVars ==
    << commandSetting, commands, ev0, ev, sent, imports, dispatch, runs, errors,
       escaped, failures, pending >>

VARIABLES
    \* --- the callback registry and the interaction handler ---
    callbacks,       \* the Map of line 24: its keys in insertion order
    lastOp,          \* the last operation, its callback, the Map before it
    unsubscribed,    \* the callbacks unsubscribed and not subscribed since
    world,           \* the blocks around the interacted block
    block,           \* the place of the interacted (or queried) block
    largeChest,      \* what getLargeChest returned
    events,          \* the event object of lines 56-63, after the broadcast
    invoked,         \* the callbacks the broadcast called, in order
    seen,            \* events.cancel as each of them found it, in order
    cancelled,       \* some callback of the broadcast set cancel = true
    threw,           \* a callback threw: the handler ended at line 65
    hostCancel,      \* ev.cancel of the host notification after the handler
    broadcast        \* what test() sent with world.sendMessage

chestVars ==
    << callbacks, lastOp, unsubscribed, world, block, largeChest, events, invoked,
       seen, cancelled, threw, hostCancel, broadcast >>

VARIABLES
    \* --- one call of match ---
    tokens,          \* splitMessage
    actor,           \* entity
    matched,         \* what match returned ("called" says that it has)
    returned         \* what command returned ("called" says that it has)

matchVars == << tokens, actor, matched, returned >>

VARIABLES
    \* --- new CommandHandler(...) ---
    wrapCommands,    \* the keys of the Map of line 189
    log,             \* the constructor's log parameter
    stage,           \* "new", then "loading" (suspended on an import), "done"
    queue,           \* the names getAllSubCommands returned (line 211)
    attempts,        \* the names import() was called with, in order
    outcomes,        \* how each settled import ended
    console          \* the console.warn and console.error lines, in order

ctorVars == << wrapCommands, log, stage, queue, attempts, outcomes, console >>

vars == << routerVars, chestVars, matchVars, ctorVars >>

\* ------------------------------------------------------------ the events

\* A ChatSendBeforeEvent: sender is always a Player; cancel is writable and
\* another subscriber may already have set it.
ChatEvents ==
    { [kind |-> "chat", id |-> << >>, message |-> m, entity |-> p, cancel |-> c] :
        m \in StrUpTo(MaxLen), p \in Players, c \in BOOLEAN }

\* The ids the host delivers script events under.
ScriptIds == { << "i" >>, << "a" >> }

\* A ScriptEventCommandMessageAfterEvent: sourceEntity is a player, another
\* entity or undefined; the event has no cancel flag (kept FALSE here).
ScriptEvents ==
    { [kind |-> "script", id |-> i, message |-> m, entity |-> e, cancel |-> FALSE] :
        i \in ScriptIds, m \in StrUpTo(MaxLen - 1), e \in Actors }

\* An event of neither class: check returns at line 244.
OtherEvent ==
    [kind |-> "other", id |-> << >>, message |-> << >>, entity |-> Absent, cancel |-> FALSE]

Events == ChatEvents \cup ScriptEvents \cup {OtherEvent}

\* The message check works on (lines 238-244).
MessageOf(e) ==
    IF e.kind = "chat" THEN e.message ELSE e.id \o << " " >> \o e.message

\* The stages of check's async function: "pending" before check is called,
\* "idle" when check returned without starting it, then "loading" (suspended
\* on import), "running" (an async run is in flight) and "done".
NotStarted(st) ==
    [stage |-> st, name |-> NullName, entity |-> Absent, args |-> << >>]
NoDispatch == NotStarted("idle")

InitRouterOf(settings, trees, evs) ==
    /\ commandSetting \in settings
    /\ commands \in trees
    /\ ev0 \in evs
    /\ ev = ev0
    /\ sent = << >>
    /\ imports = << >>
    /\ dispatch = NotStarted("pending")
    /\ runs = << >>
    /\ errors = 0
    /\ escaped = 0
    /\ failures = 0
    /\ pending = << >>

\* ------------------------------------------------- CommandHandler.check

\* Whether check reports and returns at line 253 ("invalid command").
ReportsInvalid(c, entity) == ~Truthy(c.name) /\ entity.kind = "player"

\* (mutant) the negation of result is lost: a denied command is not reported.
ReportsNoPermissionWhenMatched(c, entity) ==
    c.result /\ Truthy(c.name) /\ entity.kind = "player"

\* Whether check reports and returns at line 258 ("no permission").
ReportsNoPermission(c, entity) ==
    ~c.result /\ Truthy(c.name) /\ entity.kind = "player"

\* (mutant) the event is taken only when match named a command.
OwnedWhenNamed(c) == c.result \/ Truthy(c.name)

\* The condition of line 248: the router takes the event as its own.
Owned(c) == c.isPrefixId \/ c.result \/ Truthy(c.name)

\* (mutant) check leaves an event alone while an earlier load is pending.
BusyWhileLoading(earlier) == earlier # << >>

\* Whether the dispatches started for earlier events make check leave an
\* event alone: check keeps no record of them and awaits nothing (the async
\* function of line 263 is called and not awaited).
Busy(earlier) == FALSE

\* check(ev), up to the first await of its async function: import() has been
\* called and the function is suspended on it.
Check(e) ==
    /\ dispatch.stage = "pending"
    /\ LET entity == e.entity
           c == command(commandSetting, commands, MessageOf(e), entity)
           owned == e.kind # "other" /\ ~Busy(pending) /\ Owned(c)
       IN  /\ ev' = IF owned /\ e.kind = "chat" THEN [e EXCEPT !.cancel = TRUE] ELSE e
           /\ IF ~owned
              THEN /\ sent' = << >>
                   /\ imports' = << >>
                   /\ dispatch' = NoDispatch
              ELSE IF ReportsInvalid(c, entity)
              THEN /\ sent' = << "invalid" >>
                   /\ imports' = << >>
                   /\ dispatch' = NoDispatch
              ELSE IF ReportsNoPermission(c, entity)
              THEN /\ sent' = << "noPermission" >>
                   /\ imports' = << >>
                   /\ dispatch' = NoDispatch
              ELSE /\ sent' = << >>
                   /\ imports' = << c.name >>
                   /\ dispatch' = [stage |-> "loading", name |-> c.name,
                                   entity |-> entity, args |-> c.splitMessage]
    /\ UNCHANGED << commandSetting, commands, ev0, runs, errors, escaped, failures,
                    pending >>
    /\ UNCHANGED << chestVars, matchVars, ctorVars >>

\* import() rejects: the catch of line 268 logs the error.
LoadFails ==
    /\ dispatch.stage = "loading"
    /\ errors' = errors + 1
    /\ failures' = failures + 1
    /\ dispatch' = [dispatch EXCEPT !.stage = "done"]
    /\ UNCHANGED << commandSetting, commands, ev0, ev, sent, imports, runs, escaped,
                    pending >>
    /\ UNCHANGED << chestVars, matchVars, ctorVars >>

\* What the module's run does when called: it returns, it throws, it is an
\* async function (it returns a promise that settles later), or the module
\* exposes no run at all (the call throws a TypeError).
RunKinds == {"returns", "throws", "async", "missing"}

\* import() resolves and line 267 calls module.run(entity, splitMessage); the
\* promise run returns is not awaited.
LoadSucceeds(kind) ==
    /\ dispatch.stage = "loading"
    /\ runs' = IF kind = "missing" THEN runs
               ELSE Append(runs, [name |-> dispatch.name, entity |-> dispatch.entity,
                                  args |-> dispatch.args])
    /\ errors' = IF kind \in {"throws", "missing"} THEN errors + 1 ELSE errors
    /\ failures' = IF kind \in {"throws", "missing"} THEN failures + 1 ELSE failures
    /\ dispatch' = [dispatch EXCEPT !.stage = IF kind = "async" THEN "running" ELSE "done"]
    /\ UNCHANGED << commandSetting, commands, ev0, ev, sent, imports, escaped, pending >>
    /\ UNCHANGED << chestVars, matchVars, ctorVars >>

\* The promise of an async run settles after check's async function has
\* ended: nothing awaits it, so a rejection reaches no catch of check.
RunSettles(ok) ==
    /\ dispatch.stage = "running"
    /\ escaped' = IF ok THEN escaped ELSE escaped + 1
    /\ failures' = IF ok THEN failures ELSE failures + 1
    /\ dispatch' = [dispatch EXCEPT !.stage = "done"]
    /\ UNCHANGED << commandSetting, commands, ev0, ev, sent, imports, runs, errors,
                    pending >>
    /\ UNCHANGED << chestVars, matchVars, ctorVars >>

NextRouter ==
    \/ Check(ev0)
    \/ LoadFails
    \/ \E kind \in RunKinds : LoadSucceeds(kind)
    \/ \E ok \in BOOLEAN : RunSettles(ok)

\* ------------------------------- events that arrive while a load is pending

\* The events the host delivers one after another: chat messages of a player
\* with and without the tag op, and script events of no entity and of a mob.
LaterEvents ==
    { [kind |-> "chat", id |-> << >>, message |-> m, entity |-> p, cancel |-> FALSE] :
        m \in { << "!", "a" >>, << "!", "b" >>, << "b" >> },
        p \in { Player(NoTags), Player({"op"}) } }
    \cup
    { [kind |-> "script", id |-> << "i" >>, message |-> << "a" >>, entity |-> e,
       cancel |-> FALSE] : e \in { Absent, Mob(NoTags) } }

\* The host delivers the next event. check has returned for the one before;
\* the dispatch it started, if it has not ended, stays suspended for good (its
\* import never settles), and what was observed of that event is forgotten.
Arrives(e) ==
    /\ dispatch.stage # "pending"
    /\ Len(pending) < MaxPending
    /\ pending' = IF dispatch.stage \in {"loading", "running"}
                  THEN Append(pending, dispatch) ELSE pending
    /\ ev0' = e
    /\ ev' = e
    /\ sent' = << >>
    /\ imports' = << >>
    /\ dispatch' = NotStarted("pending")
    /\ runs' = << >>
    /\ errors' = 0
    /\ escaped' = 0
    /\ failures' = 0
    /\ UNCHANGED << commandSetting, commands >>
    /\ UNCHANGED << chestVars, matchVars, ctorVars >>

NextLater ==
    \/ Check(ev0)
    \/ LoadFails
    \/ \E kind \in RunKinds : LoadSucceeds(kind)
    \/ \E ok \in BOOLEAN : RunSettles(ok)
    \/ \E e \in LaterEvents : Arrives(e)

\* -------------------------------------- the registry and the handler

Callbacks == {"c1", "c2", "c3"}

Range(seq) == {seq[i] : i \in 1..Len(seq)}

Without(seq, x) == SelectSeq(seq, LAMBDA y : y # x)

\* What a callback does with the event it is handed: nothing, cancel = true,
\* cancel = false, or it throws.
Behaviours == {"observe", "cancel", "uncancel", "throw"}

\* The blocks the interaction handler is tried on: a large chest, a single
\* chest, a trapped chest beside a chest, and air.
LargeWest == [c \in Cells |-> IF c \in {Centre, << -1, 0 >>}
                              THEN Chest54(ContainerA, StatesNorth) ELSE Air]
TrappedWest == [c \in Cells |-> IF c = Centre THEN Chest54(ContainerA, StatesNorth)
                                ELSE IF c = << -1, 0 >> THEN TrappedChest54 ELSE Air]
SingleAlone == [c \in Cells |-> IF c = Centre THEN SingleChest ELSE Air]
AllAir == [c \in Cells |-> Air]
InteractWorlds == {LargeWest, TrappedWest, SingleAlone, AllAir}

NoEvent ==
    [interactBlock |-> Centre, isFirstEvent |-> FALSE, isLarge |-> FALSE,
     chestPair |-> NoPair, cancel |-> FALSE]

InitChestOf(worlds) ==
    /\ callbacks = << >>
    /\ lastOp = [op |-> "none", callback |-> "c1", before |-> << >>]
    /\ unsubscribed = {}
    /\ world \in worlds
    /\ block = Centre
    /\ largeChest = NoPair
    /\ events = NoEvent
    /\ invoked = << >>
    /\ seen = << >>
    /\ cancelled = FALSE
    /\ threw = FALSE
    /\ hostCancel = FALSE
    /\ broadcast = StatesOfAir

\* The event object, the handler's locals and the host notification are gone
\* when another operation begins.
Forgotten ==
    /\ largeChest' = NoPair
    /\ events' = NoEvent
    /\ invoked' = << >>
    /\ seen' = << >>
    /\ cancelled' = FALSE
    /\ threw' = FALSE
    /\ hostCancel' = FALSE
    /\ broadcast' = StatesOfAir

\* Map.prototype.set(callback, true): a new key goes last, a key the Map
\* holds keeps its place.
MapSet(map, callback) ==
    IF callback \in Range(map) THEN map ELSE Append(map, callback)

\* (mutant) only the key added last can be removed.
MapDeleteLast(map, callback) ==
    IF map # << >> /\ map[Len(map)] = callback THEN SubSeq(map, 1, Len(map) - 1) ELSE map

\* Map.prototype.delete(callback): the key is removed, if the Map holds it.
MapDelete(map, callback) == Without(map, callback)

\* playerUseChestBeforeEvent.subscribe(callback)
subscribe(callback) ==
    /\ callbacks' = MapSet(callbacks, callback)
    /\ lastOp' = [op |-> "subscribe", callback |-> callback, before |-> callbacks]
    /\ unsubscribed' = unsubscribed \ {callback}
    /\ Forgotten
    /\ UNCHANGED << world, block >>
    /\ UNCHANGED << routerVars, matchVars, ctorVars >>

\* playerUseChestBeforeEvent.unsubscribe(callback)
unsubscribe(callback) ==
    /\ callbacks' = MapDelete(callbacks, callback)
    /\ lastOp' = [op |-> "unsubscribe", callback |-> callback, before |-> callbacks]
    /\ unsubscribed' = unsubscribed \cup {callback}
    /\ Forgotten
    /\ UNCHANGED << world, block >>
    /\ UNCHANGED << routerVars, matchVars, ctorVars >>

\* callbacks.forEach of line 65 from the keys left to visit: each callback is
\* handed the one event object; a callback that throws ends the forEach.
RECURSIVE forEach(_, _, _)
forEach(left, does, b) ==
    IF left = << >> THEN b
    ELSE LET callback == Head(left)
             called == [b EXCEPT !.invoked = Append(@, callback),
                                 !.seen = Append(@, b.cancel)]
         IN  CASE does[callback] = "throw" -> [called EXCEPT !.threw = TRUE]
               [] does[callback] = "cancel" ->
                    forEach(Tail(left), does,
                            [called EXCEPT !.cancel = TRUE, !.cancelled = TRUE])
               [] does[callback] = "uncancel" ->
                    forEach(Tail(left), does, [called EXCEPT !.cancel = FALSE])
               [] OTHER -> forEach(Tail(left), does, called)

\* Lines 67-69: the host notification is cancelled when the handler reaches
\* them with events.cancel set.
HostCancelAfter(b) ==
    IF b.threw THEN FALSE ELSE IF b.cancel THEN TRUE ELSE FALSE

\* (mutant) isLarge is taken from the capacity of the block's container.
NewEventLargeByCapacity(w, pos, isFirstEvent, pair) ==
    [interactBlock |-> pos, isFirstEvent |-> isFirstEvent,
     isLarge |-> BlockAt(w, pos).size = LargeChestSize, chestPair |-> pair,
     cancel |-> FALSE]

\* The event object of lines 56-63 as it is built: isLarge is
\* largeChest ? true : false, chestPair is largeChest, cancel is false.
NewEvent(w, pos, isFirstEvent, pair) ==
    [interactBlock |-> pos, isFirstEvent |-> isFirstEvent,
     isLarge |-> IF pair.found THEN TRUE ELSE FALSE, chestPair |-> pair,
     cancel |-> FALSE]

\* The handler of world.beforeEvents.playerInteractWithBlock (lines 50-70) on
\* a notification for the block at the centre, whose cancel is false.
interact(isFirstEvent, does) ==
    LET w == world
        pair == getLargeChest(w, Centre)
        built == NewEvent(w, Centre, isFirstEvent, pair)
        b == forEach(callbacks, does,
                     [cancel |-> built.cancel, cancelled |-> FALSE, threw |-> FALSE,
                      invoked |-> << >>, seen |-> << >>])
    IN  /\ largeChest' = pair
        /\ broadcast' = BlockAt(w, Centre).states
        /\ events' = [built EXCEPT !.cancel = b.cancel]
        /\ invoked' = b.invoked
        /\ seen' = b.seen
        /\ cancelled' = b.cancelled
        /\ threw' = b.threw
        /\ hostCancel' = HostCancelAfter(b)
        /\ lastOp' = [op |-> "interact", callback |-> "c1", before |-> callbacks]
        /\ UNCHANGED << callbacks, unsubscribed, world, block >>
        /\ UNCHANGED << routerVars, matchVars, ctorVars >>

NextChest ==
    \/ \E callback \in Callbacks : subscribe(callback)
    \/ \E callback \in Callbacks : unsubscribe(callback)
    \/ \E isFirstEvent \in BOOLEAN, does \in [Range(callbacks) -> Behaviours] :
          interact(isFirstEvent, does)

\* ------------------------------------------- one call of getLargeChest

\* The pairing of the block at the centre of any world.
Pairing ==
    /\ lastOp.op = "none"
    /\ largeChest' = getLargeChest(world, block)
    /\ lastOp' = [lastOp EXCEPT !.op = "getLargeChest"]
    /\ UNCHANGED << callbacks, unsubscribed, world, block, events, invoked, seen,
                    cancelled, threw, hostCancel, broadcast >>
    /\ UNCHANGED << routerVars, matchVars, ctorVars >>

NextPair == Pairing

\* ------------------------------------------------------ one call of match

\* The tokens match is tried on: the names of the trees, a name no tree
\* holds, and the empty token split yields for two spaces in a row.
Tokens == { A, B, << "i" >>, << >> }

RECURSIVE SeqsUpTo(_, _)
SeqsUpTo(S, n) ==
    IF n = 0 THEN {<< >>}
    ELSE LET shorter == SeqsUpTo(S, n - 1)
         IN  shorter \cup {Append(s, x) : s \in shorter, x \in S}

NotCalled == [called |-> FALSE, result |-> FALSE, name |-> NullName,
              remainingMessage |-> << >>]

NotReturned == [called |-> FALSE, isPrefixId |-> FALSE, result |-> FALSE,
                name |-> NullName, splitMessage |-> << >>]

InitMatchOf(tokenSeqs, entities) ==
    /\ tokens \in tokenSeqs
    /\ actor \in entities
    /\ matched = NotCalled
    /\ returned = NotReturned

\* this.match(this.commands, splitMessage, entity)
Match ==
    /\ ~matched.called
    /\ LET m == match(commands, tokens, actor)
       IN  matched' = [called |-> TRUE, result |-> m.result, name |-> m.name,
                       remainingMessage |-> m.remainingMessage]
    /\ UNCHANGED << tokens, actor, returned >>
    /\ UNCHANGED << routerVars, chestVars, ctorVars >>

NextMatch == Match

\* ---------------------------------------------------- one call of command

\* The messages command is tried on: every string of the alphabet, and the
\* message "!help".
Help == << "h", "e", "l", "p" >>

ParseEvents ==
    { [kind |-> "chat", id |-> << >>, message |-> m, entity |-> Player(NoTags),
       cancel |-> FALSE] : m \in StrUpTo(MaxLen) \cup { << "!" >> \o Help } }

\* this.command(message, entity) on the event's message: when the message
\* starts with the prefix or the id, tokens is the splitMessage of line 290
\* and matched is what match returned for it.
Command ==
    /\ ~returned.called
    /\ LET message == MessageOf(ev0)
           r == command(commandSetting, commands, message, ev0.entity)
           splitMessage == split(Stripped(message, commandSetting))
           m == match(commands, splitMessage, ev0.entity)
       IN  /\ returned' = [called |-> TRUE, isPrefixId |-> r.isPrefixId,
                           result |-> r.result, name |-> r.name,
                           splitMessage |-> r.splitMessage]
           /\ tokens' = IF r.isPrefixId THEN splitMessage ELSE tokens
           /\ matched' = IF r.isPrefixId
                         THEN [called |-> TRUE, result |-> m.result, name |-> m.name,
                               remainingMessage |-> m.remainingMessage]
                         ELSE matched
    /\ UNCHANGED actor
    /\ UNCHANGED << routerVars, chestVars, ctorVars >>

NextParse == Command

\* ------------------------------------------- CommandHandler.constructor

\* generateUUIDv4 draws 122 random bits: a value the Map does not hold yet.
UUIDs == {"u1", "u2"}

InitCtorOf(logs) ==
    /\ wrapCommands = {}
    /\ log \in logs
    /\ stage = "new"
    /\ queue = << >>
    /\ attempts = << >>
    /\ outcomes = << >>
    /\ console = << >>

\* (mutant) the try around the whole loop: the first failure ends it.
LoopEndsOnFailure(ok) == ok

\* Whether the for loop of line 214 goes on to the next command after an
\* import that ended ok (TRUE) or failed (FALSE): the try is inside the loop.
LoopGoesOn(ok) == TRUE

\* The loop from the command after the ones attempted: the next import() is
\* called and awaited, or the async function ends.
Advance(goesOn) ==
    IF goesOn /\ Len(attempts) < Len(queue)
    THEN /\ attempts' = Append(attempts, queue[Len(attempts) + 1])
         /\ stage' = "loading"
    ELSE /\ attempts' = attempts
         /\ stage' = "done"

\* new CommandHandler(commandsPath, commandSetting, commands, log), up to the
\* first await of its async function.
Construct(uuid) ==
    /\ stage = "new"
    /\ IF uuid \notin wrapCommands
       THEN LET names == getAllSubCommands(commands)
            IN  /\ wrapCommands' = wrapCommands \cup {uuid}
                /\ queue' = names
                /\ IF Len(names) > 0
                   THEN attempts' = << names[1] >> /\ stage' = "loading"
                   ELSE attempts' = << >> /\ stage' = "done"
       ELSE /\ stage' = "done"
            /\ UNCHANGED << wrapCommands, queue, attempts >>
    /\ UNCHANGED << log, outcomes, console >>
    /\ UNCHANGED << routerVars, chestVars, matchVars >>

\* The awaited import() resolves: line 218 logs when log is set.
ImportResolves ==
    /\ stage = "loading"
    /\ outcomes' = Append(outcomes, "ok")
    /\ console' = IF log
                  THEN Append(console, [level |-> "warn", command |-> attempts[Len(attempts)]])
                  ELSE console
    /\ Advance(LoopGoesOn(TRUE))
    /\ UNCHANGED << wrapCommands, log, queue >>
    /\ UNCHANGED << routerVars, chestVars, matchVars >>

\* The awaited import() rejects: lines 222-223 log the error and the name.
ImportRejects ==
    /\ stage = "loading"
    /\ outcomes' = Append(outcomes, "failed")
    /\ console' = console \o << [level |-> "error", command |-> << >>],
                               [level |-> "error", command |-> attempts[Len(attempts)]] >>
    /\ Advance(LoopGoesOn(FALSE))
    /\ UNCHANGED << wrapCommands, log, queue >>
    /\ UNCHANGED << routerVars, chestVars, matchVars >>

Settles == ImportResolves \/ ImportRejects

NextCtor ==
    \/ \E uuid \in UUIDs : Construct(uuid)
    \/ ImportResolves
    \/ ImportRejects

\* ===================================================== specifications

OneSetting == [prefix |-> << "!" >>, id |-> << "i" >>]
OneEvent == [kind |-> "chat", id |-> << >>, message |-> << >>,
             entity |-> Player(NoTags), cancel |-> FALSE]

\* One router and one event handed to check.
InitRouter ==
    /\ InitRouterOf(Settings, Trees, Events)
    /\ InitChestOf({AllAir})
    /\ InitMatchOf({<< >>}, {Absent})
    /\ InitCtorOf({FALSE})

SpecRouter == InitRouter /\ [][NextRouter]_vars

\* One router and events handed to check one after another, the dispatches
\* of earlier ones left pending.
InitLater ==
    /\ InitRouterOf(Settings, Trees, LaterEvents)
    /\ InitChestOf({AllAir})
    /\ InitMatchOf({<< >>}, {Absent})
    /\ InitCtorOf({FALSE})

SpecLater == InitLater /\ [][NextLater]_vars

\* The registry, and the interactions the host notifies.
InitChest ==
    /\ InitRouterOf({OneSetting}, {TreeFlat}, {OneEvent})
    /\ InitChestOf(InteractWorlds)
    /\ InitMatchOf({<< >>}, {Absent})
    /\ InitCtorOf({FALSE})

SpecChest == InitChest /\ [][NextChest]_vars

\* getLargeChest on the centre of every world.
InitPair ==
    /\ InitRouterOf({OneSetting}, {TreeFlat}, {OneEvent})
    /\ InitChestOf(Worlds)
    /\ InitMatchOf({<< >>}, {Absent})
    /\ InitCtorOf({FALSE})

SpecPair == InitPair /\ [][NextPair]_vars

\* The worlds an interaction is notified in: a block of any kind between
\* neighbours that are air, a trapped chest or a chest like or unlike it.
NeighbourKinds ==
    { Air, TrappedChest54, Chest54(ContainerA, StatesNorth),
      Chest54(ContainerB, StatesNorth), Chest54(ContainerA, StatesEast) }

EventWorlds == {w \in Worlds : \A c \in Cells \ {Centre} : w[c] \in NeighbourKinds}

\* One subscriber, and the pairing of, or an interaction with, the centre of
\* each of these worlds.
InitEvent ==
    /\ InitRouterOf({OneSetting}, {TreeFlat}, {OneEvent})
    /\ InitChestOf(EventWorlds)
    /\ InitMatchOf({<< >>}, {Absent})
    /\ InitCtorOf({FALSE})

NextEvent ==
    \/ \E callback \in {"c1"} : lastOp.op = "none" /\ subscribe(callback)
    \/ Pairing
    \/ \E isFirstEvent \in BOOLEAN, does \in [Range(callbacks) -> Behaviours] :
          lastOp.op \in {"none", "subscribe"} /\ interact(isFirstEvent, does)

SpecEvent == InitEvent /\ [][NextEvent]_vars

\* match on every tree, token sequence and entity.
InitMatch ==
    /\ InitRouterOf({OneSetting}, Trees, {OneEvent})
    /\ InitChestOf({AllAir})
    /\ InitMatchOf(SeqsUpTo(Tokens, MaxTokens), Actors)
    /\ InitCtorOf({FALSE})

SpecMatch == InitMatch /\ [][NextMatch]_vars

\* command on every message, under every setting.
InitParse ==
    /\ InitRouterOf(Settings, {TreeFlat}, ParseEvents)
    /\ InitChestOf({AllAir})
    /\ InitMatchOf({<< >>}, {Absent})
    /\ InitCtorOf({FALSE})

SpecParse == InitParse /\ [][NextParse]_vars

\* The construction of a router; every import settles in the end.
InitCtor ==
    /\ InitRouterOf({OneSetting}, Trees, {OneEvent})
    /\ InitChestOf({AllAir})
    /\ InitMatchOf({<< >>}, {Absent})
    /\ InitCtorOf(BOOLEAN)

SpecCtor == InitCtor /\ [][NextCtor]_vars /\ WF_vars(Settles)

\* ============================================================== claims

\* ---- the registry and the interaction handler (SpecChest) ----

Interacted == lastOp.op = "interact"

\* C1: when a callback of the broadcast has set the event's cancel flag to
\* true and the handler has run to its end, the host notification's cancel
\* flag is true, whatever the callbacks called after it did.
C1_CancelByAnyCallbackReachesHost ==
    (Interacted /\ cancelled /\ ~threw) => hostCancel

\* C2: an interaction calls no callback that was unsubscribed and not
\* subscribed again since, however often it had been subscribed before; and
\* unsubscribe of a callback the registry does not hold is always possible
\* and leaves the registry as it was.
C2_UnsubscribedIsNotCalled ==
    /\ Interacted => Range(invoked) \cap unsubscribed = {}
    /\ \A callback \in Callbacks : ENABLED unsubscribe(callback)
    /\ (lastOp.op = "unsubscribe" /\ lastOp.callback \notin Range(lastOp.before))
          => callbacks = lastOp.before

\* C2 witness: an interaction that called the registered callbacks while
\* another callback, subscribed and then unsubscribed, was left out.
C2_Witness ==
    /\ Interacted
    /\ unsubscribed # {}
    /\ invoked # << >>
    /\ Range(invoked) \cap unsubscribed = {}

\* ---- getLargeChest (SpecPair) ----

Paired == lastOp.op = "getLargeChest"

QueriedIsLargeChest ==
    /\ world[block].typeId = "minecraft:chest"
    /\ world[block].hasContainer
    /\ world[block].size = LargeChestSize

\* The directions, by their rank in [west, east, north, south], in which the
\* neighbour is another capacity-54 chest with an identical set of states.
ChestNeighbours ==
    {i \in 1..4 :
        LET n == BlockAt(world, Neighbour(block, directions[i]))
        IN  /\ n.typeId = "minecraft:chest"
            /\ n.hasContainer
            /\ n.size = LargeChestSize
            /\ n.states = world[block].states}

\* The same for a neighbour of any type with a capacity-54 container, an
\* identical set of states and identical container properties.
EqualNeighbours ==
    {i \in 1..4 :
        LET n == BlockAt(world, Neighbour(block, directions[i]))
        IN  /\ n.hasContainer
            /\ n.size = LargeChestSize
            /\ n.states = world[block].states
            /\ n.container = world[block].container}

ReturnsFirstOf(ranks) ==
    IF ranks = {} THEN ~largeChest.found
    ELSE /\ largeChest.found
         /\ largeChest.first = block
         /\ largeChest.second = Neighbour(block, directions[MinOf(ranks)])

Checked == dispatch.stage # "pending" /\ ev0.kind \in {"chat", "script"}

\* The message starts with the prefix or with the id.
Recognized ==
    \/ startsWith(MessageOf(ev0), commandSetting.prefix)
    \/ startsWith(MessageOf(ev0), commandSetting.id)

TokensOf(e) == split(Stripped(MessageOf(e), commandSetting))

Lacks(node, entity) ==
    /\ entity.kind # "none"
    /\ node.hasTags
    /\ node.tags # << >>
    /\ Range(node.tags) \cap entity.tags = {}

\* The tokens, followed from the root one level per token through nodes the
\* entity may use, come to a node none of whose tags the entity holds.
RECURSIVE NamesDeniedNode(_, _, _)
NamesDeniedNode(nodes, toks, entity) ==
    /\ toks # << >>
    /\ toks[1] # << >>
    /\ \E i \in 1..Len(nodes) :
          /\ nodes[i].name = toks[1]
          /\ \A j \in 1..(i - 1) : nodes[j].name # toks[1]
          /\ IF Lacks(nodes[i], entity) THEN TRUE
             ELSE /\ nodes[i].hasSub
                  /\ NamesDeniedNode(nodes[i].subCommands, Tail(toks), entity)

\* What match reports for the event's tokens.
MatchOf(e) == match(commands, TokensOf(e), e.entity)

\* C3: a recognized chat message of a player whose tokens name a command node
\* the player holds no tag of: the chat event is cancelled, the player is
\* sent the one message "no permission" and nothing else, and no handler
\* module is loaded or run.
C3_DeniedChatCommand ==
    (/\ Checked
     /\ ev0.kind = "chat"
     /\ Recognized
     /\ NamesDeniedNode(commands, TokensOf(ev0), ev0.entity))
    => /\ ev.cancel
       /\ sent = << "noPermission" >>
       /\ imports = << >>
       /\ runs = << >>
       /\ dispatch.stage = "idle"

\* C3 witness: a chat event that was not cancelled before, denied at a node
\* below the root.
C3_Witness ==
    /\ Checked
    /\ ev0.kind = "chat"
    /\ ~ev0.cancel
    /\ Recognized
    /\ Len(TokensOf(ev0)) = 2
    /\ commands = TreeNested
    /\ NamesDeniedNode(commands, TokensOf(ev0), ev0.entity)
    /\ ~Lacks(commands[1], ev0.entity)
    /\ TokensOf(ev0)[1] = A
    /\ sent = << "noPermission" >>
    /\ ev.cancel

\* C4: for a chat or a script event and an entity of any kind, when match
\* resolves a name and reports the permission denied, check loads no handler
\* module and runs none, and sends "no permission" only to a player.
C4_DeniedIsNeverDispatched ==
    (/\ Checked
     /\ Recognized
     /\ ~MatchOf(ev0).result
     /\ Truthy(MatchOf(ev0).name))
    => /\ imports = << >>
       /\ runs = << >>
       /\ sent = IF ev0.entity.kind = "player" THEN << "noPermission" >> ELSE << >>

\* C5: for a recognized message for which no terminal name is resolved and an
\* entity of any kind, check sends "invalid command" exactly when the entity
\* is a player, and in every case asks for no handler module.
C5_UnresolvedIsNeverDispatched ==
    (/\ Checked
     /\ Recognized
     /\ ~Truthy(MatchOf(ev0).name))
    => /\ imports = << >>
       /\ sent = IF ev0.entity.kind = "player" THEN << "invalid" >> ELSE << >>

\* C6: check sets the cancel flag of a chat event exactly when its message
\* starts with the prefix or with the id, whatever match found; an event whose
\* message starts with neither keeps its message and its cancel flag, nothing
\* is sent to the entity and no handler module is loaded.
C6_ChatCancelledIffRecognized ==
    (Checked /\ ev0.kind = "chat")
    => /\ Recognized => ev.cancel
       /\ ~Recognized => (ev = ev0 /\ sent = << >> /\ imports = << >>)
       /\ ev.message = ev0.message
       /\ ~ev0.cancel => (ev.cancel <=> Recognized)

\* C6 witness: a chat message with the prefix that names no command: the
\* event is cancelled although nothing matched.
C6_Witness ==
    /\ Checked
    /\ ev0.kind = "chat"
    /\ ~ev0.cancel
    /\ commandSetting.prefix = << "!" >>
    /\ startsWith(ev0.message, << "!" >>)
    /\ ~Truthy(MatchOf(ev0).name)
    /\ ~MatchOf(ev0).result
    /\ sent = << "invalid" >>
    /\ ev.cancel

\* C9: when the dispatch check started has ended, every failure of the load
\* or of run (of an async run too) was logged with console.error, none
\* reached the host, and nothing was sent to the entity.
C9_DispatchFailuresAreLoggedAndSwallowed ==
    (dispatch.stage = "done" /\ failures > 0)
    => /\ errors = failures
       /\ escaped = 0
       /\ sent = << >>

\* ---- CommandHandler.match (SpecMatch) ----

\* The first sibling named by the first token, 0 when there is none.
Sibling ==
    IF tokens = << >> THEN 0
    ELSE LET named == {i \in 1..Len(commands) : commands[i].name = tokens[1]}
         IN  IF named = {} THEN 0 ELSE MinOf(named)

RECURSIVE LeafNames(_)
LeafNames(nodes) ==
    IF nodes = << >> THEN << >>
    ELSE LET children == IF nodes[1].hasSub THEN nodes[1].subCommands ELSE << >>
         IN  (IF children = << >> THEN << nodes[1].name >> ELSE LeafNames(children))
             \o LeafNames(Tail(nodes))

IsPrefix(p, q) == Len(p) <= Len(q) /\ SubSeq(q, 1, Len(p)) = p

C11_EveryRegisteredCallbackIsInvokedOnce ==
    Interacted =>
        /\ invoked = lastOp.before
        /\ callbacks = lastOp.before
        /\ hostCancel = events.cancel

\* ---- the dispatch of a permitted command (SpecRouter) ----

\* How many of the tokens spell a path from the root to a leaf (a node
\* without children), one level per token through the first sibling of that
\* name, with the entity permitted on every node of it; 0 when they spell none.
RECURSIVE LeafPath(_, _, _)
LeafPath(nodes, toks, entity) ==
    IF toks = << >> THEN 0
    ELSE LET named == {i \in 1..Len(nodes) : nodes[i].name = toks[1]}
         IN  IF named = {} THEN 0
             ELSE LET node == nodes[MinOf(named)]
                      children == IF node.hasSub THEN node.subCommands ELSE << >>
                      below == LeafPath(children, Tail(toks), entity)
                  IN  IF Lacks(node, entity) THEN 0
                      ELSE IF children = << >> THEN 1
                      ELSE IF below = 0 THEN 0 ELSE below + 1

\* C12: for a recognized message whose tokens spell a path to a leaf the
\* entity is permitted on, check sends neither "invalid command" nor "no
\* permission" and asks for the module of that leaf's name; the load can
\* resolve, and when it has resolved without a failure run has been called
\* exactly once, with the event's entity and the tokens after the path.
C12_PermittedLeafIsLoadedAndRunOnce ==
    (Checked /\ Recognized /\ LeafPath(commands, TokensOf(ev0), ev0.entity) > 0)
    => LET toks == TokensOf(ev0)
           k == LeafPath(commands, toks, ev0.entity)
           call == [name |-> StrName(toks[k]), entity |-> ev0.entity,
                    args |-> SubSeq(toks, k + 1, Len(toks))]
       IN  /\ sent = << >>
           /\ imports = << call.name >>
           /\ dispatch.stage = "loading" => ENABLED LoadSucceeds("returns")
           /\ (dispatch.stage \in {"running", "done"} /\ failures = 0)
                 => runs = << call >>

\* ---- the event of an interaction (SpecEvent) ----

\* C13: for a block that is not of the chest type, whatever its container
\* and its neighbours, getLargeChest returns no pair, and the event of an
\* interaction with it has isLarge false and no chestPair.
C13_NoPairForOtherBlockTypes ==
    world[block].typeId # "minecraft:chest"
    => /\ Paired => ~largeChest.found
       /\ Interacted => (~largeChest.found /\ ~events.isLarge /\ ~events.chestPair.found)

\* C13 witness: an interaction with a trapped chest whose container holds 54
\* slots and whose western neighbour is a chest with the same states and
\* container properties; the subscriber was handed an event that is not large.
C13_Witness ==
    /\ Interacted
    /\ invoked = << "c1" >>
    /\ world[block] = TrappedChest54
    /\ world[<< -1, 0 >>].typeId = "minecraft:chest"
    /\ Pairs(world, block, << -1, 0 >>)
    /\ ~events.isLarge
    /\ ~events.chestPair.found

\* ---- the name match returns as matched (SpecMatch) ----

\* C14: whenever match returns result true with a name, some prefix of the
\* tokens spells a path from the root, one level per token, to a node without
\* children, the entity is permitted on every node of that path (the nodes
\* above the leaf too), the name is the last token of the path and the
\* remaining tokens are exactly the tokens after it.
C14_MatchedNameIsAPermittedLeaf ==
    (matched.called /\ matched.result /\ Truthy(matched.name))
    => LET k == LeafPath(commands, tokens, actor)
       IN  /\ k > 0
           /\ matched.name = StrName(tokens[k])
           /\ matched.remainingMessage = SubSeq(tokens, k + 1, Len(tokens))

\* C14 witness: an entity holding one of the two tags of a node with children
\* and the tag of its child is matched on the child, an argument left over.
C14_Witness ==
    /\ matched.called
    /\ commands = TreeNested
    /\ actor = Player({"vip"})
    /\ tokens = << B, B, A >>
    /\ matched = [called |-> TRUE, result |-> TRUE, name |-> StrName(B),
                  remainingMessage |-> << A >>]

\* ---- events that arrive while a load is pending (SpecLater) ----

RECURSIVE DropFirst(_, _)
DropFirst(s, p) ==
    IF startsWith(s, p) THEN SubSeq(s, Len(p) + 1, Len(s))
    ELSE IF s = << >> THEN s
    ELSE << Head(s) >> \o DropFirst(Tail(s), p)

\* s without the spaces at its ends, taken off one at a time.
RECURSIVE Unpadded(_)
Unpadded(s) ==
    IF s = << >> THEN s
    ELSE IF Head(s) = " " THEN Unpadded(Tail(s))
    ELSE IF s[Len(s)] = " " THEN Unpadded(SubSeq(s, 1, Len(s) - 1))
    ELSE s

\* The tokens put together again, a single space between two of them.
RECURSIVE Joined(_)
Joined(toks) ==
    IF toks = << >> THEN << >>
    ELSE IF Len(toks) = 1 THEN toks[1]
    ELSE toks[1] \o << " " >> \o Joined(Tail(toks))

\* C16: for a message that starts with the prefix or with the id, whichever
\* of the two it is, command reports it recognized and its tokens are the
\* message, less the first occurrence of the prefix, the spaces at the ends,
\* then the first occurrence of the id and again the spaces at the ends, cut
\* at every single space (no token holds a space, and the tokens joined by
\* single spaces are that text); the message "!help" under the prefix "!" and
\* the id "" gives the one token "help".
C16_TokensAreTheMessageLessPrefixAndId ==
    (returned.called /\ Recognized)
    => LET text == Unpadded(DropFirst(Unpadded(DropFirst(MessageOf(ev0),
                                                         commandSetting.prefix)),
                                      commandSetting.id))
       IN  /\ returned.isPrefixId
           /\ tokens # << >>
           /\ \A i \in 1..Len(tokens) : " " \notin Range(tokens[i])
           /\ Joined(tokens) = text
           /\ (/\ MessageOf(ev0) = << "!" >> \o Help
               /\ commandSetting = [prefix |-> << "!" >>, id |-> << >>])
                 => tokens = << Help >>

\* C16 witness: the message "!help" under the prefix "!" and the id "" was
\* recognized and cut into the one token "help".
C16_Witness ==
    /\ returned.called
    /\ returned.isPrefixId
    /\ MessageOf(ev0) = << "!", "h", "e", "l", "p" >>
    /\ commandSetting = [prefix |-> << "!" >>, id |-> << >>]
    /\ tokens = << << "h", "e", "l", "p" >> >>

\* C17: the event handed to a callback has cancel false when the first
\* callback is called; isLarge is true exactly when there is a chestPair; and
\* the chestPair's first is the block interacted with, its second a block one
\* step to the west, east, north or south of it.
C17_EventAsDelivered ==
    (Interacted /\ invoked # << >>)
    => /\ seen[1] = FALSE
       /\ events.isLarge <=> events.chestPair.found
       /\ events.chestPair.found =>
             LET first == events.chestPair.first
                 second == events.chestPair.second
             IN  /\ first = events.interactBlock
                 /\ first = block
                 /\ << second[1] - first[1], second[2] - first[2] >>
                       \in { << -1, 0 >>, << 1, 0 >>, << 0, -1 >>, << 0, 1 >> }

\* C17 witness: the subscriber was handed the event of a large chest whose
\* other half is to the east, found it not cancelled and cancelled it.
C17_Witness ==
    /\ Interacted
    /\ invoked = << "c1" >>
    /\ seen = << FALSE >>
    /\ events.cancel
    /\ events.isLarge
    /\ events.chestPair = [found |-> TRUE, first |-> Centre, second |-> << 1, 0 >>]
    /\ world[<< -1, 0 >>] # Air

\* ---- the pair getLargeChest returns (SpecPair) ----

IsChest54(b) == b.typeId = "minecraft:chest" /\ b.hasContainer /\ b.size = LargeChestSize

\* C18: whenever getLargeChest returns a pair, both of its blocks are chests
\* with a container of 54 slots, and getLargeChest on the second block of the
\* pair returns a pair too.
C18_PairIsTwoChestsAndSymmetric ==
    (Paired /\ largeChest.found)
    => /\ IsChest54(BlockAt(world, largeChest.first))
       /\ IsChest54(BlockAt(world, largeChest.second))
       /\ getLargeChest(world, largeChest.second).found

\* ---- the names registered and the names matched (SpecMatch) ----

\* The names match can return as matched to an absent entity.
Matchable ==
    { name \in Tokens \ {<< >>} :
        \E toks \in SeqsUpTo(Tokens, MaxTokens) :
            LET m == match(commands, toks, Absent)
            IN  m.result /\ m.name = StrName(name) }

\* C19: the names getAllSubCommands collects for the constructor to load are
\* exactly the names match can return as matched for some tokens and an
\* absent entity; so every node without children, one declared with an empty
\* list of subCommands too, can be reached by spelling its path.
C19_CollectedExactlyWhenMatchable ==
    Range(getAllSubCommands(commands)) = Matchable

====
